---- MODULE Spec2Model ----
(***************************************************************************)
(* Study Time Tracker API (src/main.py): the password utility, the         *)
(* register / login handlers over the "studentuser" and "session"          *)
(* collections, and the blog / contact handlers over the store adapter.    *)
(*                                                                         *)
(* Text that the code takes apart (passwords, stored password forms) is a  *)
(* sequence of one-character strings; text that the code only copies and   *)
(* compares (names, e-mails, tokens, ids) is a TLA+ string.                *)
(***************************************************************************)
EXTENDS Integers, Sequences, FiniteSets, TLC

VARIABLES
    db,          \* truthiness of the module-level store handle `db` (main.py:11)
    users,       \* collection "studentuser", in insertion order
    sessions,    \* collection "session", in insertion order
    blogposts,   \* collection "blogpost", in insertion order
    contacts,    \* collection "contactmessage", in insertion order
    nextOid,     \* the next identifier the store generates
    th,          \* per worker thread: its position inside register
    okRegs,      \* history: payloads of the register calls answered {ok: true}
    resp,        \* history: the request completed last and its response
    prev,        \* history: the request completed before `resp` (sequential runs)
    pw_password, \* password utility: the password being verified
    pw_hashed,   \* password utility: <<q>> when pw_stored came from hash_password(q)
    pw_stored,   \* password utility: the stored form under test
    pw_result,   \* password utility: outcome of verify_password
    pw_pc        \* password utility: position of the driver

vars == <<db, users, sessions, blogposts, contacts, nextOid, th, okRegs, resp,
          prev, pw_password, pw_hashed, pw_stored, pw_result, pw_pc>>

storeVars == <<db, users, sessions, blogposts, contacts, nextOid, th, okRegs,
               resp, prev>>
pwVars == <<pw_password, pw_hashed, pw_stored, pw_result, pw_pc>>

----------------------------------------------------------------------------
(* Bounds of the model *)

MaxPwLen == 2       \* longest password the password-utility driver draws
MaxFormLen == 3     \* longest hand-made stored form the driver draws
MaxUsers == 2       \* register calls admitted past the e-mail check
MaxSessions == 1    \* successful logins
MaxPosts == 11      \* documents in "blogpost"
MaxContacts == 1    \* documents in "contactmessage"
MaxLimit == 12      \* largest ?limit= the model requests

(* Program constants *)

SaltBytes == 16     \* secrets.token_hex(16)
TokenBytes == 32    \* secrets.token_urlsafe(32)
SessionDays == 7    \* timedelta(days=7)
DefaultLimit == 10  \* list_blog(limit: int = 10)

----------------------------------------------------------------------------
(* Strings as sequences of characters *)

Sep == ":"

\* All strings over `alphabet` of length at most n.
StringsUpTo(alphabet, n) == UNION {[1..k -> alphabet] : k \in 0..n}

\* Number of occurrences of character c in s.
Count(s, c) == Cardinality({i \in 1..Len(s) : s[i] = c})

\* Python's s.split(sep): the list of the parts between the separators.
RECURSIVE Split(_, _)
Split(s, sep) ==
    IF \A i \in 1..Len(s) : s[i] # sep
    THEN <<s>>
    ELSE LET i == CHOOSE k \in 1..Len(s) :
                      s[k] = sep /\ \A j \in 1..(k - 1) : s[j] # sep
         IN <<SubSeq(s, 1, i - 1)>> \o Split(SubSeq(s, i + 1, Len(s)), sep)

----------------------------------------------------------------------------
(* Password utility, main.py:26-37 *)

\* Digits the random draws of the model are made of.
HexSample == {"0", "f"}

\* secrets.token_hex(nbytes): 2*nbytes hexadecimal digits. The model draws from
\* the strings made of one repeated digit of HexSample.
TokenHex(nbytes) == {[i \in 1..(2 * nbytes) |-> d] : d \in HexSample}

\* hashlib.sha256(s.encode()).hexdigest(): 64 hexadecimal digits, held as one
\* atom that is never the separator and differs for different s (SHA-256 taken
\* as collision free).
Sha256Hex(s) == <<"sha256" \o ToString(s)>>

\* Outcome of a call: a returned value, or a raised exception.
Return(v) == [raised |-> FALSE, value |-> v]
Raise == [raised |-> TRUE, value |-> FALSE]

\* Variant: the salt is left out of the hashed text.
SaltedForm_unsalted(salt, password) == salt \o <<Sep>> \o Sha256Hex(password)

\* main.py:27-29 for one drawn salt.
SaltedForm(salt, password) == salt \o <<Sep>> \o Sha256Hex(salt \o password)

\* hash_password(password): the stored forms it can return, one per salt.
hash_password(password) ==
    {SaltedForm(salt, password) : salt \in TokenHex(SaltBytes)}

\* The try body of verify_password, main.py:34-35: the unpacking of the split
\* into two names raises ValueError unless there are exactly two parts.
verify_try(password, stored) ==
    LET parts == Split(stored, Sep)
    IN IF Len(parts) # 2
       THEN Raise
       ELSE Return(Sha256Hex(parts[1] \o password) = parts[2])

\* Variant: no except clause, the ValueError propagates.
verify_password_noexcept(password, stored) == verify_try(password, stored)

\* verify_password(password, stored), main.py:32-37.
verify_password(password, stored) ==
    LET r == verify_try(password, stored)
    IN IF r.raised THEN Return(FALSE) ELSE r

----------------------------------------------------------------------------
(* Driver of the password utility *)

PwAlphabet == {"p", Sep}
FormAlphabet == {"0", Sep}
PwStrings == StringsUpTo(PwAlphabet, MaxPwLen)
StoredForms == StringsUpTo(FormAlphabet, MaxFormLen)

NoOutcome == [raised |-> FALSE, value |-> FALSE]

PwIdle ==
    /\ pw_password = <<>>
    /\ pw_hashed = <<>>
    /\ pw_stored = <<>>
    /\ pw_result = NoOutcome
    /\ pw_pc = "off"

InitPwOnly ==
    /\ pw_password \in PwStrings
    /\ pw_hashed = <<>>
    /\ pw_stored = <<>>
    /\ pw_result = NoOutcome
    /\ pw_pc = "start"

\* stored = hash_password(q)
PwHash(q) ==
    /\ pw_pc = "start"
    /\ pw_stored' \in hash_password(q)
    /\ pw_hashed' = <<q>>
    /\ pw_pc' = "stored"
    /\ UNCHANGED <<pw_password, pw_result>>

\* a stored form that did not come from hash_password
PwForge(s) ==
    /\ pw_pc = "start"
    /\ pw_stored' = s
    /\ pw_hashed' = <<>>
    /\ pw_pc' = "stored"
    /\ UNCHANGED <<pw_password, pw_result>>

\* result = verify_password(password, stored)
PwVerify ==
    /\ pw_pc = "stored"
    /\ pw_result' = verify_password(pw_password, pw_stored)
    /\ pw_pc' = "verified"
    /\ UNCHANGED <<pw_password, pw_hashed, pw_stored>>

----------------------------------------------------------------------------
(* Requests *)

Emails == {"a@x.com", "b@x.com"}
Passwords == {<<"p">>, <<"q">>}
Threads == {"t1", "t2"}

\* RegisterPayload, main.py:42-45
RegisterPayloads ==
    {[name |-> "Ann", email |-> "a@x.com", password |-> <<"p">>],
     [name |-> "Bob", email |-> "a@x.com", password |-> <<"q">>],
     [name |-> "Ann", email |-> "b@x.com", password |-> <<"q">>],
     [name |-> "Bob", email |-> "b@x.com", password |-> <<"p">>]}

\* LoginPayload, main.py:48-50
LoginPayloads == [email : Emails, password : Passwords]

\* secrets.token_urlsafe(nbytes): ceil(4*nbytes/3) URL-safe characters, held as
\* one atom per draw, tagged with its length.
TokenSample == <<"tokA", "tokB">>
TokenUrlsafe(nbytes) ==
    {TokenSample[i] \o ToString((4 * nbytes + 2) \div 3) : i \in DOMAIN TokenSample}

\* What a login draws from its environment: the random token of main.py:131
\* and the instant datetime.now(timezone.utc) returns at main.py:132, in days.
LoginDraws ==
    {[token |-> tok, now |-> t] :
        tok \in TokenUrlsafe(TokenBytes), t \in {0, 1}}

\* The draws the model lets a login make: a different token at each instant.
LoginDrawsUsed ==
    {d \in LoginDraws :
        \E i \in DOMAIN TokenSample :
            /\ d.now = i - 1
            /\ d.token = TokenSample[i] \o ToString((4 * TokenBytes + 2) \div 3)}

\* datetime.isoformat(): the text of an instant.
IsoFormat(t) == "day" \o ToString(t)

----------------------------------------------------------------------------
(* Store *)

\* Python None in a slot that otherwise holds a generated identifier; the
\* store generates identifiers from 1 on.
None == 0

\* str(x) of an identifier slot, main.py:120, 134, 152
Str(x) == IF x = None THEN "None" ELSE ToString(x)

\* collection.find_one({"email": email}): <<>> for None, else <<doc>> with the
\* first matching document in natural (insertion) order.
FindOne(coll, email) ==
    LET hits == {i \in 1..Len(coll) : coll[i].email = email}
    IN IF hits = {}
       THEN <<>>
       ELSE <<coll[CHOOSE i \in hits : \A j \in hits : i <= j]>>

\* collection.insert_one(doc): the collection with doc appended under a fresh _id
InsertOne(coll, doc, oid) == Append(coll, [doc EXCEPT !._id = oid])

HasEmail(coll, email) == \E i \in 1..Len(coll) : coll[i].email = email

----------------------------------------------------------------------------
(* Responses *)

NoResp ==
    [op |-> "none", req |-> <<>>, status |-> 0, body |-> <<>>, at |-> 0,
     before |-> <<>>, after |-> <<>>]

\* A completed request and its response. History kept with it: `at`, the instant
\* a login read from the clock; `before` and `after`, the "studentuser"
\* collection as a register call found it and left it.
Response(op, req, status, body, at, before, after) ==
    [op |-> op, req |-> req, status |-> status, body |-> body, at |-> at,
     before |-> before, after |-> after]

\* raise HTTPException(status_code=..., detail=...)
HTTPException(status, detail) == [status |-> status, detail |-> detail]

Idle == [pc |-> "idle", payload |-> <<>>, before |-> <<>>]
AllIdle == \A t \in Threads : th[t] = Idle
InFlight == Cardinality({t \in Threads : th[t].pc # "idle"})

----------------------------------------------------------------------------
(* register, main.py:101-120 *)

\* Variant: the e-mail check is skipped.
register_existing_unchecked(payload) == <<>>

\* main.py:104: existing = db["studentuser"].find_one(...) if db else None
register_existing(payload) ==
    IF db THEN FindOne(users, payload.email) ELSE <<>>

\* main.py:109-118
user_doc(payload, password_hash) ==
    [_id |-> None,
     name |-> payload.name,
     email |-> payload.email,
     password_hash |-> password_hash]

\* main.py:104-106: the e-mail check. A request whose e-mail is found is
\* answered 400 at once; any other goes on to the insert.
RegisterCheck(t, payload) ==
    /\ th[t].pc = "idle"
    /\ LET existing == register_existing(payload)
       IN IF Len(existing) > 0
          THEN /\ resp' = Response("register", payload, 400,
                     HTTPException(400, "Email already registered"),
                     0, users, users)
               /\ UNCHANGED th
          ELSE /\ Len(okRegs) + InFlight < MaxUsers
               /\ th' = [th EXCEPT ![t] = [pc |-> "insert", payload |-> payload,
                                          before |-> users]]
               /\ UNCHANGED resp
    /\ UNCHANGED <<db, users, sessions, blogposts, contacts, nextOid, okRegs>>

\* main.py:119: inserted_id = db["studentuser"].insert_one(...).inserted_id if db else None
register_inserted_id == IF db THEN nextOid ELSE None

\* main.py:108: password_hash = hash_password(payload.password). The handlers
\* of the model draw one salt of the sample; the password-utility
\* specification draws them all.
register_password_hash(password) ==
    {h \in hash_password(password) : h[1] = "0"}

\* main.py:120
register_body(inserted_id) == [ok |-> TRUE, user_id |-> Str(inserted_id)]

\* main.py:108-120: hash the password, insert the user, answer.
RegisterInsert(t) ==
    /\ th[t].pc = "insert"
    /\ LET payload == th[t].payload
           inserted_id == register_inserted_id
       IN /\ \E password_hash \in register_password_hash(payload.password) :
                 users' = IF db
                          THEN InsertOne(users, user_doc(payload, password_hash),
                                         nextOid)
                          ELSE users
          /\ nextOid' = IF db THEN nextOid + 1 ELSE nextOid
          /\ resp' = Response("register", payload, 200,
                              register_body(inserted_id), 0, th[t].before, users')
          /\ okRegs' = Append(okRegs, payload)
    /\ th' = [th EXCEPT ![t] = Idle]
    /\ UNCHANGED <<db, sessions, blogposts, contacts>>

----------------------------------------------------------------------------
(* login, main.py:123-143 *)

\* main.py:125
login_user(payload) == IF db THEN FindOne(users, payload.email) ELSE <<>>

\* Variant: an unknown e-mail is answered differently from a wrong password.
login_reject_telling(payload) ==
    LET user == IF db THEN FindOne(users, payload.email) ELSE <<>>
    IN IF Len(user) = 0
       THEN <<HTTPException(404, "User not found")>>
       ELSE IF ~verify_password(payload.password, user[1].password_hash).value
            THEN <<HTTPException(401, "Invalid credentials")>>
            ELSE <<>>

\* main.py:126-129: <<>> when the credentials pass, else <<the exception raised>>
login_reject(payload) ==
    LET user == login_user(payload)
    IN IF Len(user) = 0
       THEN <<HTTPException(401, "Invalid credentials")>>
       ELSE LET v == verify_password(payload.password, user[1].password_hash)
            IN IF v.raised
               THEN <<HTTPException(500, "Internal Server Error")>>
               ELSE IF ~v.value
                    THEN <<HTTPException(401, "Invalid credentials")>>
                    ELSE <<>>

\* Variant: the session expires a day early.
session_doc_short(user, token, now) ==
    [_id |-> None,
     user_id |-> Str(user._id),
     token |-> token,
     expires_at_iso |-> "day" \o ToString(now + SessionDays - 1)]

\* main.py:132-141
session_doc(user, token, now) ==
    [_id |-> None,
     user_id |-> Str(user._id),
     token |-> token,
     expires_at_iso |-> IsoFormat(now + SessionDays)]

\* main.py:143
login_body(user, token, doc) ==
    [ok |-> TRUE, token |-> token, expires_at |-> doc.expires_at_iso,
     name |-> user.name]

\* The whole handler in one step: nothing another request does between its
\* find_one and its insert_one changes what it read (users are never updated
\* or deleted).
Login(payload, token, now) ==
    /\ LET rejected == login_reject(payload)
       IN IF Len(rejected) > 0
          THEN /\ resp' = Response("login", payload, rejected[1].status,
                                   rejected[1], now, <<>>, <<>>)
               /\ UNCHANGED <<sessions, nextOid>>
          ELSE LET user == login_user(payload)[1]
                   doc == session_doc(user, token, now)
               IN /\ Len(sessions) < MaxSessions
                  /\ sessions' = InsertOne(sessions, doc, nextOid)
                  /\ nextOid' = nextOid + 1
                  /\ resp' = Response("login", payload, 200,
                                      login_body(user, token, doc), now, <<>>, <<>>)
    /\ UNCHANGED <<db, users, blogposts, contacts, th, okRegs>>

----------------------------------------------------------------------------
(* Store adapter: database.create_document / database.get_documents *)

\* create_document(collection, doc): Raise when the store is absent, else the
\* generated identifier as a string.
create_document(oid) == IF db THEN Return(Str(oid)) ELSE Raise

\* The first n documents of coll.
Prefix(coll, n) ==
    SubSeq(coll, 1, IF n < 0 THEN 0 ELSE IF n > Len(coll) THEN Len(coll) ELSE n)

\* get_documents(collection, {}, limit): the results it can have, <<>> standing
\* for null and <<docs>> for a list. Up to `limit` documents in insertion
\* order; an absent store gives the empty list or null.
get_documents(coll, limit) ==
    IF db THEN {<<Prefix(coll, limit)>>} ELSE {<<<<>>>>, <<>>}

----------------------------------------------------------------------------
(* Blog and contact handlers, main.py:147-168 *)

\* BlogCreatePayload, main.py:53-60, after model_dump()
BlogPayloads ==
    {[_id |-> None, title |-> "Tips", slug |-> "tips", excerpt |-> "None",
      content |-> "text", author |-> "Ann", tags |-> <<>>, cover_url |-> "None"]}

\* ContactPayload, main.py:63-67, after model_dump()
ContactPayloads ==
    {[_id |-> None, name |-> "Ann", email |-> "a@x.com", subject |-> "hi",
      message |-> "text"]}

\* ?limit=N of GET /api/blog: <<>> when omitted, else <<N>>
LimitQueries == {<<>>} \cup {<<n>> : n \in -1..MaxLimit}

\* Variant: one document too many is asked of the store.
list_limit_off(query) == IF query = <<>> THEN DefaultLimit + 1 ELSE query[1] + 1

\* main.py:148: limit: int = 10
list_limit(query) == IF query = <<>> THEN DefaultLimit ELSE query[1]

\* Variant: the identifier is dropped and the default is always used.
sanitize_blank(p) ==
    [k \in (DOMAIN p \ {"_id"}) \cup {"id"} |-> IF k = "id" THEN "" ELSE p[k]]

\* main.py:152: p["id"] = str(p.pop("_id", ""))
sanitize(p) ==
    [k \in (DOMAIN p \ {"_id"}) \cup {"id"} |->
        IF k = "id"
        THEN (IF "_id" \in DOMAIN p THEN Str(p["_id"]) ELSE "")
        ELSE p[k]]

\* main.py:151-153
list_items(posts) == [i \in 1..Len(posts) |-> sanitize(posts[i])]

\* list_blog(limit), main.py:147-153. Iterating over null is an unhandled
\* TypeError.
ListBlog(query) ==
    /\ \E posts \in get_documents(blogposts, list_limit(query)) :
           resp' = IF posts = <<>>
                   THEN Response("list_blog", query, 500,
                            HTTPException(500, "Internal Server Error"),
                            0, <<>>, <<>>)
                   ELSE Response("list_blog", query, 200,
                            [ok |-> TRUE, items |-> list_items(posts[1])],
                            0, <<>>, <<>>)
    /\ UNCHANGED <<db, users, sessions, blogposts, contacts, nextOid, th, okRegs>>

\* main.py:160 / main.py:168
created_body(inserted_id) == [ok |-> TRUE, id |-> inserted_id]

\* create_blog(payload), main.py:156-160
CreateBlog(payload) ==
    /\ LET inserted_id == create_document(nextOid)
       IN IF inserted_id.raised
          THEN /\ resp' = Response("create_blog", payload, 500,
                              HTTPException(500, "Internal Server Error"),
                              0, <<>>, <<>>)
               /\ UNCHANGED <<blogposts, nextOid>>
          ELSE /\ blogposts' = InsertOne(blogposts, payload, nextOid)
               /\ nextOid' = nextOid + 1
               /\ resp' = Response("create_blog", payload, 200,
                              created_body(inserted_id.value), 0, <<>>, <<>>)
    /\ UNCHANGED <<db, users, sessions, contacts, th, okRegs>>

\* contact(payload), main.py:164-168
Contact(payload) ==
    /\ LET inserted_id == create_document(nextOid)
       IN IF inserted_id.raised
          THEN /\ resp' = Response("contact", payload, 500,
                              HTTPException(500, "Internal Server Error"),
                              0, <<>>, <<>>)
               /\ UNCHANGED <<contacts, nextOid>>
          ELSE /\ contacts' = InsertOne(contacts, payload, nextOid)
               /\ nextOid' = nextOid + 1
               /\ resp' = Response("contact", payload, 200,
                              created_body(inserted_id.value), 0, <<>>, <<>>)
    /\ UNCHANGED <<db, users, sessions, blogposts, th, okRegs>>

----------------------------------------------------------------------------
(* Specifications *)

InitStore ==
    /\ db \in BOOLEAN
    /\ users = <<>>
    /\ sessions = <<>>
    /\ blogposts = <<>>
    /\ contacts = <<>>
    /\ nextOid = 1
    /\ th = [t \in Threads |-> Idle]
    /\ okRegs = <<>>
    /\ resp = NoResp
    /\ prev = NoResp

Init == InitStore /\ PwIdle

\* Requests handled by independent worker threads: the auth handlers.
Next ==
    /\ \/ \E t \in Threads, payload \in RegisterPayloads : RegisterCheck(t, payload)
       \/ \E t \in Threads : RegisterInsert(t)
       \/ \E payload \in LoginPayloads, d \in LoginDrawsUsed :
              Login(payload, d.token, d.now)
    /\ UNCHANGED prev
    /\ UNCHANGED pwVars

Spec == Init /\ [][Next]_vars

\* One register request at a time: the next is taken up when the last is answered.
NextSeq ==
    /\ \/ /\ AllIdle
          /\ \E t \in Threads, payload \in RegisterPayloads :
                 RegisterCheck(t, payload)
       \/ \E t \in Threads : RegisterInsert(t)
    /\ prev' = IF \A t \in Threads : th'[t] = Idle THEN resp ELSE prev
    /\ UNCHANGED pwVars

SpecSeq == Init /\ [][NextSeq]_vars

\* One blog / contact request at a time.
NextBlog ==
    /\ \/ /\ Len(blogposts) < MaxPosts
          /\ \E payload \in BlogPayloads : CreateBlog(payload)
       \/ \E query \in LimitQueries : ListBlog(query)
       \/ /\ Len(contacts) < MaxContacts
          /\ \E payload \in ContactPayloads : Contact(payload)
    /\ prev' = resp
    /\ UNCHANGED pwVars

SpecBlog == Init /\ [][NextBlog]_vars

\* The password utility alone.
InitPw == InitPwOnly /\ InitStore /\ db

NextPw ==
    /\ \/ \E q \in PwStrings : PwHash(q)
       \/ \E s \in StoredForms : PwForge(s)
       \/ PwVerify
    /\ UNCHANGED storeVars

SpecPw == InitPw /\ [][NextPw]_vars

----------------------------------------------------------------------------
(* Properties *)

Last(seq) == seq[Len(seq)]

\* C1: with a store present, when two register calls with the same e-mail are
\* answered one after the other and the first found no user with that e-mail,
\* the first is answered {ok: true, user_id} and appended exactly one user,
\* and the second is answered 400 'Email already registered' and left the
\* collection as it found it.
RegisterTwice ==
    (/\ db
     /\ prev.op = "register"
     /\ resp.op = "register"
     /\ prev.req.email = resp.req.email
     /\ ~HasEmail(prev.before, prev.req.email))
    => /\ prev.status = 200
       /\ Len(prev.after) = Len(prev.before) + 1
       /\ SubSeq(prev.after, 1, Len(prev.before)) = prev.before
       /\ Last(prev.after).email = prev.req.email
       /\ prev.body = [ok |-> TRUE, user_id |-> ToString(Last(prev.after)._id)]
       /\ resp.status = 400
       /\ resp.body = [status |-> 400, detail |-> "Email already registered"]
       /\ resp.before = prev.after
       /\ resp.after = resp.before
       /\ users = resp.after

RegisterTwiceWitness ==
    /\ db
    /\ prev.op = "register"
    /\ resp.op = "register"
    /\ prev.req.email = resp.req.email
    /\ prev.req.name # resp.req.name
    /\ ~HasEmail(prev.before, prev.req.email)
    /\ Len(prev.before) = 1
    /\ resp.status = 400

\* C2: no two users have the same e-mail.
EmailUnique ==
    \A i, j \in 1..Len(users) : users[i].email = users[j].email => i = j

\* C3: a login with the e-mail of a register call that was answered {ok: true}
\* succeeds with the registered name when it gives that call's password, and
\* is answered 401 when it gives another password.
LoginAfterRegister ==
    resp.op = "login" =>
        \A i \in 1..Len(okRegs) :
            okRegs[i].email = resp.req.email =>
                IF okRegs[i].password = resp.req.password
                THEN /\ resp.status = 200
                     /\ resp.body.ok
                     /\ resp.body.name = okRegs[i].name
                ELSE resp.status = 401

\* C4: in every state of the store, a rejected login with the e-mail of a
\* stored user and a login with an e-mail of no stored user get the same
\* response, 401 'Invalid credentials'; and every rejected login was answered so.
EnumerationSafe ==
    /\ \A p1, p2 \in LoginPayloads :
           (/\ HasEmail(users, p1.email)
            /\ ~HasEmail(users, p2.email)
            /\ login_reject(p1) # <<>>)
           => /\ login_reject(p1) = login_reject(p2)
              /\ login_reject(p2) = <<[status |-> 401, detail |-> "Invalid credentials"]>>
    /\ (resp.op = "login" /\ resp.status # 200)
           => resp.body = [status |-> 401, detail |-> "Invalid credentials"]

EnumerationSafeWitness ==
    /\ resp.op = "login"
    /\ resp.status = 401
    /\ HasEmail(users, resp.req.email)
    /\ \E p2 \in LoginPayloads : ~HasEmail(users, p2.email)

\* C5: verifying password p against a form hash_password made of q, whatever
\* salt was drawn, returns true when p = q and false when p # q.
HashVerifyRoundTrip ==
    (pw_pc = "verified" /\ pw_hashed # <<>>)
    => /\ ~pw_result.raised
       /\ pw_result.value <=> (pw_password = pw_hashed[1])

HashVerifyWitness ==
    /\ pw_pc = "verified"
    /\ pw_hashed = <<pw_password>>
    /\ Len(pw_password) > 0
    /\ pw_result = [raised |-> FALSE, value |-> TRUE]

\* C6: verify_password returns false, and raises nothing, for a stored form
\* with no separator (the empty form included) or with more than one.
VerifyFailsClosed ==
    (pw_pc = "verified" /\ Count(pw_stored, Sep) # 1)
    => pw_result = [raised |-> FALSE, value |-> FALSE]

VerifyFailsClosedWitness ==
    /\ pw_pc = "verified"
    /\ Count(pw_stored, Sep) > 1
    /\ pw_result = [raised |-> FALSE, value |-> FALSE]

\* What C7 asks of the items of an answered list_blog.
ItemsWellFormed(items) ==
    \A i \in 1..Len(items) :
        /\ "id" \in DOMAIN items[i]
        /\ "_id" \notin DOMAIN items[i]
        /\ \E j \in 1..Len(blogposts) :
               /\ items[i].id = ToString(blogposts[j]._id)
               /\ \A k \in DOMAIN blogposts[j] \ {"_id"} :
                      items[i][k] = blogposts[j][k]

\* C7 as stated: list_blog returns at most `limit` items for every requested
\* limit, at most 10 when the limit is omitted, each item with the store
\* identifier as string field id and no _id.
ListAtMostLimit ==
    (resp.op = "list_blog" /\ resp.status = 200)
    => /\ Len(resp.body.items) <= (IF resp.req = <<>> THEN 10 ELSE resp.req[1])
       /\ ItemsWellFormed(resp.body.items)

\* C7 amended: the same for every requested limit that is not negative.
ListAtMostNonNegativeLimit ==
    (/\ resp.op = "list_blog"
     /\ resp.status = 200
     /\ (resp.req = <<>> \/ resp.req[1] >= 0))
    => /\ Len(resp.body.items) <= (IF resp.req = <<>> THEN 10 ELSE resp.req[1])
       /\ ItemsWellFormed(resp.body.items)

ListAtMostWitness ==
    /\ resp.op = "list_blog"
    /\ resp.status = 200
    /\ resp.req = <<>>
    /\ Len(blogposts) > 10
    /\ Len(resp.body.items) = 10

\* C8 as stated: the list_blog call that follows a create_blog answered
\* {ok, id} returns an item with that id, whatever the limit.
CreatedPostListed ==
    (prev.op = "create_blog" /\ prev.status = 200 /\ resp.op = "list_blog")
    => /\ resp.status = 200
       /\ \E i \in 1..Len(resp.body.items) : resp.body.items[i].id = prev.body.id

\* C8 amended: it does so when the collection, the new post included, holds
\* at most `limit` posts (10 when the limit is omitted).
CreatedPostListedWithinLimit ==
    (/\ prev.op = "create_blog"
     /\ prev.status = 200
     /\ resp.op = "list_blog"
     /\ Len(blogposts) <= (IF resp.req = <<>> THEN 10 ELSE resp.req[1]))
    => /\ resp.status = 200
       /\ \E i \in 1..Len(resp.body.items) : resp.body.items[i].id = prev.body.id

CreatedPostListedWitness ==
    /\ prev.op = "create_blog"
    /\ prev.status = 200
    /\ resp.op = "list_blog"
    /\ resp.req = <<>>
    /\ Len(blogposts) = 10
    /\ resp.body.items[10].id = prev.body.id

\* C9: with the store absent, register and login end in an unhandled failure,
\* neither a success nor a client error.
AbsentStoreFailsLoudly ==
    (~db /\ resp.op \in {"register", "login"}) => resp.status = 500

\* C10: a login answered 200 appends exactly one session, with the string id
\* of a user having the e-mail given, the token returned, and an expiry 7 days
\* after the instant of the login; a rejected login leaves the sessions as they
\* were; no login changes the users; and every session's user_id is the id of
\* a stored user.
LoginEffect ==
    /\ [][(/\ resp'.op = "login"
           /\ <<resp', sessions', users'>> # <<resp, sessions, users>>)
          => /\ users' = users
             /\ IF resp'.status = 200
                THEN /\ Len(sessions') = Len(sessions) + 1
                     /\ SubSeq(sessions', 1, Len(sessions)) = sessions
                     /\ \E j \in 1..Len(users) :
                            /\ users[j].email = resp'.req.email
                            /\ Last(sessions').user_id = ToString(users[j]._id)
                     /\ Last(sessions').token = resp'.body.token
                     /\ Last(sessions').expires_at_iso = IsoFormat(resp'.at + 7)
                     /\ resp'.body.expires_at = IsoFormat(resp'.at + 7)
                ELSE sessions' = sessions]_vars
    /\ [](\A i \in 1..Len(sessions) :
              \E j \in 1..Len(users) : sessions[i].user_id = ToString(users[j]._id))

LoginEffectWitness ==
    /\ resp.op = "login"
    /\ resp.status = 200
    /\ Len(sessions) >= 1
    /\ Len(users) >= 2

====
